---------------------------- MODULE Spec2Model ----------------------------
(***************************************************************************)
(* A model of ppl, a propositional-logic calculator: the lexer and the     *)
(* operator-precedence parser (ppl/parser.py), the evaluator and the       *)
(* truth-table builder (ppl/eval.py), and the interactive session that     *)
(* stores named expressions (ppl/ui.py).                                   *)
(*                                                                         *)
(* A Python str is a sequence of one-character strings.  An expression     *)
(* tree is a record tagged with the name of its Python class.              *)
(***************************************************************************)
EXTENDS Integers, Sequences, FiniteSets, TLC

VARIABLES
    line,       \* parser REPL: the line typed at the prompt
    phase,      \* parser REPL: "typing", "parsed" or "listed"
    parsed,     \* parser REPL: outcome of parse(tokenize(line))
    shown,      \* parser REPL: _format_expr of the parsed expression
    call,       \* core calls: the function applied last and its outcome
    expr,       \* core calls: the expression argument
    interpr,    \* core calls: the interpretation argument
    _exprs,     \* session: UICmd._exprs, the named expressions
    cmd,        \* session: the command handled last, with its inputs
    out         \* session: what the command handled last printed

varsParse == <<line, phase, parsed, shown>>
varsCore  == <<call, expr, interpr>>
varsUI    == <<_exprs, cmd, out>>
vars      == <<line, phase, parsed, shown, call, expr, interpr, _exprs, cmd, out>>

-----------------------------------------------------------------------------
(* Bounds of the model.                                                    *)

\* Longest formula typed at the parser prompt, in tokens.
MaxTokens == 5
\* Deepest nesting of parentheses typed at the parser prompt.
MaxNesting == 2
\* Largest expression tree handed to the core functions, in nodes.
MaxNodes == 5
\* Largest argument of get_all_inputs.
MaxInputs == 3

-----------------------------------------------------------------------------
(* Python strings.                                                         *)

ascii_uppercase ==
    << "A", "B", "C", "D", "E", "F", "G", "H", "I", "J", "K", "L", "M",
       "N", "O", "P", "Q", "R", "S", "T", "U", "V", "W", "X", "Y", "Z" >>

ascii_lowercase ==
    << "a", "b", "c", "d", "e", "f", "g", "h", "i", "j", "k", "l", "m",
       "n", "o", "p", "q", "r", "s", "t", "u", "v", "w", "x", "y", "z" >>

Range(s) == { s[i] : i \in DOMAIN s }

\* str.upper on one character: a lowercase ASCII letter maps to its
\* uppercase letter, every other character of the model to itself.
UpperChar(c) ==
    IF c \in Range(ascii_lowercase)
    THEN ascii_uppercase[CHOOSE i \in DOMAIN ascii_lowercase : ascii_lowercase[i] = c]
    ELSE c

\* str.upper
Upper(s) == [ i \in DOMAIN s |-> UpperChar(s[i]) ]

\* str.find: the lowest 0-based index at which sub occurs in s, or -1.
\* The empty string occurs at index 0.
Find(s, sub) ==
    LET hits == { i \in 0 .. (Len(s) - Len(sub)) :
                      SubSeq(s, i + 1, i + Len(sub)) = sub }
    IN  IF hits = {} THEN -1
        ELSE CHOOSE i \in hits : \A j \in hits : i <= j

-----------------------------------------------------------------------------
(* parser.py: Symbol and the expression classes.                           *)

\* A Symbol is an int; the tree keeps it as a leaf record.
Symbol(n) == [ type |-> "Symbol", v |-> n ]

UnaryExpr(op, value) == [ type |-> "UnaryExpr", op |-> op, value |-> value ]

BinaryExpr(op, left, right) ==
    [ type |-> "BinaryExpr", op |-> op, left |-> left, right |-> right ]

\* Symbol.from_letter.  str.find never raises IndexError, so the except
\* clause is never taken: the outcome is always a Symbol, of find's value.
from_letter(letter) ==
    [ err |-> "none", sym |-> Find(ascii_uppercase, Upper(letter)) ]

\* Symbol.__str__: ascii_uppercase[self], with Python's negative indexing.
Symbol__str__(n) ==
    IF n >= 0 THEN ascii_uppercase[n + 1] ELSE ascii_uppercase[n + 26 + 1]

-----------------------------------------------------------------------------
(* parser.py: tokenize.                                                    *)

\* The characters the three token specs match: \s, [A-Za-z], [!&|~=()].
Whitespace == { " ", "\t" }
Letters    == Range(ascii_uppercase) \cup Range(ascii_lowercase)
OpChars    == { "!", "&", "|", "~", "=", "(", ")" }

Token(type, value) == [ type |-> type, value |-> value ]

\* The one element of a singleton set.  A value that is used more than
\* once is bound by r \in { value }, which evaluates it once.
Only(S) == CHOOSE v \in S : TRUE

\* The end (1-based, inclusive) of the whitespace run that starts at i.
RECURSIVE WsEnd(_, _)
WsEnd(s, i) ==
    IF i < Len(s) /\ s[i + 1] \in Whitespace THEN WsEnd(s, i + 1) ELSE i

\* make_tokenizer(specs)(s) from position i, the tokens before i being
\* acc: the first spec that matches at the position yields a token; no
\* match raises LexerError.
RECURSIVE Lex(_, _, _)
Lex(s, i, acc) ==
    IF i > Len(s) THEN [ err |-> "none", toks |-> acc ]
    ELSE IF s[i] \in Whitespace THEN
        Lex(s, WsEnd(s, i) + 1, Append(acc, Token("ws", " ")))
    ELSE IF s[i] \in Letters THEN
        Lex(s, i + 1, Append(acc, Token("symbol", s[i])))
    ELSE IF s[i] \in OpChars THEN
        Lex(s, i + 1, Append(acc, Token("op", s[i])))
    ELSE [ err |-> "LexerError", toks |-> << >> ]

\* tokenize: the tokens of s that are not whitespace, or LexerError.
tokenize(s) ==
    Only({ IF r.err # "none" THEN r
           ELSE [ err |-> "none",
                  toks |-> SelectSeq(r.toks, LAMBDA t : t.type # "ws") ] :
           r \in { Lex(s, 1, << >>) } })

-----------------------------------------------------------------------------
(* parser.py: parse.  Each parser takes the tokens and a position and      *)
(* returns the value parsed and the position after it, or fails; this is   *)
(* how funcparserlib's combinators run (+ is sequence, | is ordered        *)
(* choice, many is greedy repetition that stops at the first failure).     *)

None == [ type |-> "None" ]
NoParse == [ ok |-> FALSE, val |-> None, pos |-> 0 ]
Parsed(val, pos) == [ ok |-> TRUE, val |-> val, pos |-> pos ]

\* tok('op', name): the token at i is the operator name.
_op(toks, i, name) == i <= Len(toks) /\ toks[i] = Token("op", name)

\* _to_unary_expr
_to_unary_expr(op, e) == UnaryExpr(op, e)

RECURSIVE _to_binary_expr(_, _)

\* A variant that folds a chain to the right: A & B & C as A & (B & C).
_to_binary_expr_right(first, rest) ==
    IF rest = << >> THEN first
    ELSE BinaryExpr(rest[1][1], first, _to_binary_expr(rest[1][2], Tail(rest)))

\* _to_binary_expr: fold the (op, expr) pairs of a chain to the left.
_to_binary_expr(first, rest) ==
    IF rest = << >> THEN first
    ELSE _to_binary_expr(BinaryExpr(rest[1][1], first, rest[1][2]), Tail(rest))

RECURSIVE primary(_, _), conj(_, _), disj(_, _), matcond(_, _), bicond(_, _)
RECURSIVE many(_, _, _, _)

\* The operand parser of each chain, by the chain's operator.
Operand(name, toks, i) ==
    CASE name = "&" -> primary(toks, i)
      [] name = "|" -> conj(toks, i)
      [] name = "~" -> disj(toks, i)
      [] name = "=" -> matcond(toks, i)

\* many(_op(name) + operand): the pairs parsed and the position after the
\* last complete pair.
many(name, toks, i, acc) ==
    IF ~ _op(toks, i, name) THEN [ items |-> acc, pos |-> i ]
    ELSE Only({ IF ~ r.ok THEN [ items |-> acc, pos |-> i ]
                ELSE many(name, toks, r.pos, Append(acc, << name, r.val >>)) :
                r \in { Operand(name, toks, i + 1) } })

\* operand + many(_op(name) + operand) >> _to_binary_expr
Chain(name, toks, i) ==
    Only({ IF ~ first.ok THEN NoParse
           ELSE Only({ Parsed(_to_binary_expr(first.val, rest.items), rest.pos) :
                       rest \in { many(name, toks, first.pos, << >>) } }) :
           first \in { Operand(name, toks, i) } })

\* symbol = tok('symbol') >> Symbol.from_letter
symbol(toks, i) ==
    IF i <= Len(toks) /\ toks[i].type = "symbol"
    THEN Parsed(Symbol(from_letter(<< toks[i].value >>).sym), i + 1)
    ELSE NoParse

\* neg = _op('!') + primary >> _to_unary_expr
neg(toks, i) ==
    IF ~ _op(toks, i, "!") THEN NoParse
    ELSE Only({ IF r.ok THEN Parsed(_to_unary_expr("!", r.val), r.pos) ELSE NoParse :
                r \in { primary(toks, i + 1) } })

\* paren = -_op('(') + expr + -_op(')')
paren(toks, i) ==
    IF ~ _op(toks, i, "(") THEN NoParse
    ELSE Only({ IF r.ok /\ _op(toks, r.pos, ")") THEN Parsed(r.val, r.pos + 1)
                ELSE NoParse :
                r \in { bicond(toks, i + 1) } })

\* primary.define(symbol | neg | paren)
primary(toks, i) ==
    Only({ IF s.ok THEN s
           ELSE Only({ IF n.ok THEN n ELSE paren(toks, i) : n \in { neg(toks, i) } }) :
           s \in { symbol(toks, i) } })

conj(toks, i)    == Chain("&", toks, i)
disj(toks, i)    == Chain("|", toks, i)
matcond(toks, i) == Chain("~", toks, i)
bicond(toks, i)  == Chain("=", toks, i)

\* A variant whose document is expr alone, without -finished: tokens left
\* after the expression are ignored.
parse_unfinished(toks) ==
    Only({ IF r.ok
           THEN [ err |-> "none", expr |-> r.val ]
           ELSE [ err |-> "NoParseError", expr |-> None ] :
           r \in { bicond(toks, 1) } })

\* document = expr + -finished; parse returns the expression or raises
\* NoParseError.
parse(toks) ==
    Only({ IF r.ok /\ r.pos = Len(toks) + 1
           THEN [ err |-> "none", expr |-> r.val ]
           ELSE [ err |-> "NoParseError", expr |-> None ] :
           r \in { bicond(toks, 1) } })

\* parse(tokenize(s)), as the REPL and do_new compose them.
parse_tokenize(s) ==
    Only({ IF t.err # "none" THEN [ err |-> t.err, expr |-> None ]
           ELSE parse(t.toks) :
           t \in { tokenize(s) } })

-----------------------------------------------------------------------------
(* ui.py: _format_expr.                                                    *)

\* _precedence.index(op) for _precedence = ['=', '~', '|', '&', '!'].
_precedence(op) ==
    CASE op = "=" -> 0
      [] op = "~" -> 1
      [] op = "|" -> 2
      [] op = "&" -> 3
      [] op = "!" -> 4

\* _unicode_ops: each character is named by its code point.
_unicode_ops(op) ==
    CASE op = "=" -> "U+2194"
      [] op = "~" -> "U+2192"
      [] op = "|" -> "U+2228"
      [] op = "&" -> "U+2227"
      [] op = "!" -> "U+00AC"

RECURSIVE _format_expr(_, _)

\* format_subexpr: an operand of a binary expression; a binary operand is
\* parenthesised when its operator comes earlier in _precedence.
format_subexpr(e, op, u) ==
    CASE e.type = "Symbol"     -> << Symbol__str__(e.v) >>
      [] e.type = "UnaryExpr"  -> _format_expr(e, u)
      [] e.type = "BinaryExpr" ->
            IF _precedence(e.op) < _precedence(op)
            THEN << "(" >> \o _format_expr(e, u) \o << ")" >>
            ELSE _format_expr(e, u)

_format_expr(e, u) ==
    CASE e.type = "Symbol"     -> << Symbol__str__(e.v) >>
      [] e.type = "UnaryExpr"  ->
            << IF u THEN _unicode_ops(e.op) ELSE e.op >>
            \o ( IF e.value.type = "Symbol"
                 THEN << Symbol__str__(e.value.v) >>
                 ELSE << "(" >> \o _format_expr(e.value, u) \o << ")" >> )
      [] e.type = "BinaryExpr" ->
            format_subexpr(e.left, e.op, u)
            \o << " ", IF u THEN _unicode_ops(e.op) ELSE e.op, " " >>
            \o format_subexpr(e.right, e.op, u)

-----------------------------------------------------------------------------
(* The parser's prompt (parser.py, the loop under __main__): a line is     *)
(* typed, read, tokenized and parsed; a parsed expression is then printed  *)
(* with _format_expr, as the session's list command prints it.             *)

\* The keys of the prompt: a variable letter, '!', a parenthesis, or a
\* binary operator with one space on each side.
Keys ==
    { << "A" >>, << "B" >>, << "C" >>, << "!" >>, << "(" >>, << ")" >>,
      << " ", "&", " " >>, << " ", "|", " " >>,
      << " ", "~", " " >>, << " ", "=", " " >> }

\* The number of tokens of a line of keys: its characters that are not spaces.
NTokens(s) == Cardinality({ i \in DOMAIN s : s[i] \notin Whitespace })

\* The parentheses a line leaves open.
OpenParens(s) ==
    Cardinality({ i \in DOMAIN s : s[i] = "(" }) - Cardinality({ i \in DOMAIN s : s[i] = ")" })

\* The variables of a line are named in the order of their first
\* appearance: a letter is typed once the letters before it have been.
\* (The lexer and the parser treat every letter alike.)
InOrder(s, k) ==
    \A n \in 1 .. 25 :
        k = << ascii_uppercase[n + 1] >> =>
            \A m \in 1 .. n : ascii_uppercase[m] \in Range(s)

IdleParse == /\ line = << >>
             /\ phase = "idle"
             /\ parsed = [ err |-> "none", expr |-> None ]
             /\ shown = << >>

IdleCore == /\ call = [ fn |-> "none" ]
            /\ expr = None
            /\ interpr = << >>

IdleUI == /\ _exprs = << >>
          /\ cmd = [ name |-> "none" ]
          /\ out = << >>

InitParse ==
    /\ line = << >>
    /\ phase = "typing"
    /\ parsed = [ err |-> "none", expr |-> None ]
    /\ shown = << >>
    /\ IdleCore
    /\ IdleUI

\* A key is typed at the prompt, the line holding fewer than max tokens
\* and, for an opening parenthesis, leaving fewer than MaxNesting open.
TypeKey(k, max) ==
    /\ phase = "typing"
    /\ NTokens(line) < max
    /\ k = << "(" >> => OpenParens(line) < MaxNesting
    /\ InOrder(line, k)
    /\ line' = line \o k
    /\ UNCHANGED << phase, parsed, shown, varsCore, varsUI >>

\* parse(tokenize(input('? '))): the line is read and parsed.
ReadLine ==
    /\ phase = "typing"
    /\ parsed' = parse_tokenize(line)
    /\ phase' = "parsed"
    /\ UNCHANGED << line, shown, varsCore, varsUI >>

\* The parsed expression is printed by _format_expr.
Format ==
    /\ phase = "parsed"
    /\ parsed.err = "none"
    /\ shown' = _format_expr(parsed.expr, FALSE)
    /\ phase' = "listed"
    /\ UNCHANGED << line, parsed, varsCore, varsUI >>

\* The loop prompts for the next line.
Prompt ==
    /\ phase \in { "parsed", "listed" }
    /\ line' = << >>
    /\ phase' = "typing"
    /\ parsed' = [ err |-> "none", expr |-> None ]
    /\ shown' = << >>
    /\ UNCHANGED << varsCore, varsUI >>

NextParse ==
    \/ \E k \in Keys : TypeKey(k, MaxTokens)
    \/ ReadLine
    \/ Format
    \/ Prompt

SpecParse == InitParse /\ [][NextParse]_vars

-----------------------------------------------------------------------------
(* The prompt restricted to chains of conditionals: the keys are two       *)
(* letters, '~' and the parentheses, and a line may be longer.             *)

MaxChainTokens == 7

ChainKeys ==
    { << "A" >>, << "B" >>, << "(" >>, << ")" >>, << " ", "~", " " >> }

NextRoundTrip ==
    \/ \E k \in ChainKeys : TypeKey(k, MaxChainTokens)
    \/ ReadLine
    \/ Format
    \/ Prompt

SpecRoundTrip == InitParse /\ [][NextRoundTrip]_vars

-----------------------------------------------------------------------------
(* What the claims about the parser are stated with: the reading of a      *)
(* token sequence by the precedence rules, defined by splitting, not by    *)
(* descent.                                                                *)

\* The tokens of the line read (empty when the lexer fails).
LineTokens == tokenize(line).toks

IsOp(t, name) == t = Token("op", name)

BinaryOps == { "&", "|", "~", "=" }

IsBinaryOp(t) == t.type = "op" /\ t.value \in BinaryOps

\* Open parentheses minus closed ones among the first i tokens.
RECURSIVE Depth(_, _)
Depth(t, i) ==
    IF i = 0 THEN 0
    ELSE Depth(t, i - 1)
         + (IF IsOp(t[i], "(") THEN 1 ELSE IF IsOp(t[i], ")") THEN -1 ELSE 0)

\* The positions from i on of the binary operators outside every
\* parenthesis, d parentheses being open at i.
RECURSIVE TopLevel(_, _, _)
TopLevel(t, i, d) ==
    IF i > Len(t) THEN {}
    ELSE IF IsOp(t[i], "(") THEN TopLevel(t, i + 1, d + 1)
    ELSE IF IsOp(t[i], ")") THEN TopLevel(t, i + 1, d - 1)
    ELSE (IF d = 0 /\ IsBinaryOp(t[i]) THEN { i } ELSE {}) \cup TopLevel(t, i + 1, d)

\* The loosest of the binary operators at the positions tops.
Loosest(t, tops) ==
    CHOOSE name \in BinaryOps :
        /\ \E i \in tops : t[i].value = name
        /\ \A j \in tops : _precedence(name) <= _precedence(t[j].value)

Last(S) == CHOOSE i \in S : \A j \in S : j <= i

\* The tree a token sequence denotes: split at the last outermost
\* occurrence of the loosest binary operator (so '=' binds loosest, '&'
\* tightest, and a chain nests to the left); without one, strip a leading
\* '!' or an enclosing pair of parentheses; a single letter is a variable.
\* None when the sequence denotes no tree.
RECURSIVE Reading(_)
Reading(t) ==
    IF t = << >> THEN None
    ELSE IF TopLevel(t, 1, 0) # {} THEN
        LET tops == TopLevel(t, 1, 0)
            name == Loosest(t, tops)
            i    == Last({ k \in tops : t[k].value = name })
        IN  Only({ IF l = None \/ r = None THEN None ELSE BinaryExpr(name, l, r) :
                   l \in { Reading(SubSeq(t, 1, i - 1)) },
                   r \in { Reading(SubSeq(t, i + 1, Len(t))) } })
    ELSE IF IsOp(t[1], "!") THEN
        Only({ IF v = None THEN None ELSE UnaryExpr("!", v) :
               v \in { Reading(Tail(t)) } })
    ELSE IF IsOp(t[1], "(") /\ IsOp(t[Len(t)], ")") THEN
        Reading(SubSeq(t, 2, Len(t) - 1))
    ELSE IF Len(t) = 1 /\ t[1].type = "symbol" THEN
        Symbol(CHOOSE n \in 0 .. 25 : ascii_uppercase[n + 1] = UpperChar(t[1].value))
    ELSE None

\* The tokens of a tree in order, without parentheses.
RECURSIVE Flatten(_)
Flatten(e) ==
    CASE e.type = "Symbol"     -> << Token("symbol", Symbol__str__(e.v)) >>
      [] e.type = "UnaryExpr"  -> << Token("op", e.op) >> \o Flatten(e.value)
      [] e.type = "BinaryExpr" ->
            Flatten(e.left) \o << Token("op", e.op) >> \o Flatten(e.right)

NoParens(t) == SelectSeq(t, LAMBDA x : ~ IsOp(x, "(") /\ ~ IsOp(x, ")"))

UpperTokens(t) ==
    [ i \in DOMAIN t |->
        IF t[i].type = "symbol" THEN Token("symbol", UpperChar(t[i].value)) ELSE t[i] ]

-----------------------------------------------------------------------------
(* Claims about the parser and the formatter.                              *)

ExprA == Symbol(0)
ExprB == Symbol(1)
ExprC == Symbol(2)

LineOrAnd     == << "A", " ", "|", " ", "B", " ", "&", " ", "C" >>
LineAndAnd    == << "A", " ", "&", " ", "B", " ", "&", " ", "C" >>
LineNotAnd    == << "!", "A", " ", "&", " ", "B" >>
LineParenEq   == << "(", "A", " ", "=", " ", "B", ")" >>
LineTwo       == << "A", "B" >>
LineStray     == << "A", ")" >>
LineNoOperand == << "A", " ", "&", " " >>
LineBang      == << "!" >>
LineUnclosed  == << "(", "A", " ", "&", " ", "B" >>

\* C6: for every line the lexer accepts, parse returns exactly the tree the
\* precedence rules give ('!' tightest, then '&', '|', '~', '=' loosest;
\* chains of one operator nested to the left; parentheses read from the
\* loosest level), and fails exactly when the rules give no tree.
\* 'A | B & C' is A | (B & C), 'A & B & C' is (A & B) & C, '!A & B' is
\* (!A) & B.
ParsePrecedence ==
    (phase = "parsed" /\ parsed.err # "LexerError") =>
        /\ parsed.expr = Reading(LineTokens)
        /\ (parsed.err = "none") <=> (parsed.expr # None)
        /\ line = LineOrAnd =>
               parsed.expr = BinaryExpr("|", ExprA, BinaryExpr("&", ExprB, ExprC))
        /\ line = LineAndAnd =>
               parsed.expr = BinaryExpr("&", BinaryExpr("&", ExprA, ExprB), ExprC)
        /\ line = LineNotAnd =>
               parsed.expr = BinaryExpr("&", UnaryExpr("!", ExprA), ExprB)
        /\ line = LineParenEq => parsed.expr = BinaryExpr("=", ExprA, ExprB)

\* C6 witness: 'A | B & C' has been parsed to A | (B & C).
ParsePrecedenceWitness ==
    /\ phase = "parsed"
    /\ line = LineOrAnd
    /\ parsed.expr = BinaryExpr("|", ExprA, BinaryExpr("&", ExprB, ExprC))

\* The line stops where an operand is due: after a binary operator, a '!'
\* or an opening parenthesis.
Truncated(t) ==
    /\ t # << >>
    /\ t[Len(t)].type = "op"
    /\ ~ IsOp(t[Len(t)], ")")

\* A parenthesis is left open.
Unclosed(t) == Depth(t, Len(t)) > 0

\* A complete expression is followed by a token that cannot continue it.
Trailing(t) ==
    \E k \in 1 .. (Len(t) - 1) :
        /\ Reading(SubSeq(t, 1, k)) # None
        /\ ~ IsBinaryOp(t[k + 1])

\* C9: parse has no partial success.  It returns either an expression that
\* accounts for every token (its tokens in order are the line's tokens
\* without the parentheses, which balance) or NoParseError and no
\* expression.  It fails on the empty line, when an operand is missing
\* after an operator, when a parenthesis is left open and when a token
\* remains after a complete expression.
ParseAllOrNothing ==
    (phase = "parsed" /\ parsed.err # "LexerError") =>
        LET t == LineTokens
        IN  /\ parsed.err \in { "none", "NoParseError" }
            /\ parsed.err = "none" =>
                   /\ parsed.expr # None
                   /\ Flatten(parsed.expr) = NoParens(UpperTokens(t))
                   /\ Depth(t, Len(t)) = 0
            /\ parsed.err # "none" => parsed.expr = None
            /\ (t = << >> \/ Truncated(t) \/ Unclosed(t) \/ Trailing(t)) =>
                   parsed.err = "NoParseError"
            /\ line \in { LineTwo, LineStray, LineNoOperand, LineBang,
                          LineUnclosed, << >> } =>
                   parsed.err = "NoParseError"

\* C9 witness: '(A & B' has been rejected, with no expression returned.
ParseAllOrNothingWitness ==
    /\ phase = "parsed"
    /\ line = LineUnclosed
    /\ parsed = [ err |-> "NoParseError", expr |-> None ]

\* A line as the keys write its tokens: one space on each side of a binary
\* operator and no other space.
RECURSIVE Render(_)
Render(t) ==
    IF t = << >> THEN << >>
    ELSE ( IF IsBinaryOp(t[1]) THEN << " ", t[1].value, " " >>
           ELSE << t[1].value >> ) \o Render(Tail(t))

\* The parentheses at i and j enclose one sub-expression.
Matched(t, i, j) ==
    /\ i < j
    /\ IsOp(t[i], "(")
    /\ IsOp(t[j], ")")
    /\ Depth(t, j) = Depth(t, i - 1)
    /\ \A k \in i .. (j - 1) : Depth(t, k) > Depth(t, i - 1)

Without(t, i, j) == SubSeq(t, 1, i - 1) \o SubSeq(t, i + 1, j - 1) \o SubSeq(t, j + 1, Len(t))

\* Canonical: spaced as the keys space it, letters in uppercase, and every
\* pair of parentheses needed (without it the line parses to another tree,
\* or not at all).
Canonical(s) ==
    LET t == tokenize(s).toks
    IN  /\ tokenize(s).err = "none"
        /\ s = Render(t)
        /\ s = Upper(s)
        /\ \A i, j \in DOMAIN t :
               Matched(t, i, j) => parse(Without(t, i, j)).expr # parse(t).expr

\* C4: a canonical line that parses is printed back unchanged by
\* _format_expr.
RoundTrip ==
    (phase = "listed" /\ Canonical(line)) => shown = line

-----------------------------------------------------------------------------
(* eval.py.  A call either returns a value or raises an exception.         *)

Return(v) == [ value |-> v ]
Raise(e)  == [ raised |-> e ]
Returned(r) == "value" \in DOMAIN r

\* A variant that does not visit the right operand of a binary expression.
RECURSIVE get_variables_left(_)
get_variables_left(e) ==
    CASE e.type = "UnaryExpr"  -> get_variables_left(e.value)
      [] e.type = "BinaryExpr" -> get_variables_left(e.left)
      [] e.type = "Symbol"     -> { e.v }

\* get_variables: the set of the Symbols at the leaves.
RECURSIVE get_variables(_)
get_variables(e) ==
    CASE e.type = "UnaryExpr"  -> get_variables(e.value)
      [] e.type = "BinaryExpr" -> get_variables(e.left) \cup get_variables(e.right)
      [] e.type = "Symbol"     -> { e.v }

\* A variant that yields the empty tuple for n = 0 instead of raising.
RECURSIVE get_all_inputs_zero(_)
get_all_inputs_zero(n) ==
    IF n > 1 THEN
        Only({ Return([ i \in 1 .. 2 * Len(sub.value) |->
                          << i % 2 = 0 >> \o sub.value[(i + 1) \div 2] ]) :
               sub \in { get_all_inputs_zero(n - 1) } })
    ELSE IF n = 1 THEN Return(<< << FALSE >>, << TRUE >> >>)
    ELSE IF n = 0 THEN Return(<< << >> >>)
    ELSE Raise("ValueError")

\* A variant that extends each shorter tuple at its end, so that the last
\* position varies fastest.
RECURSIVE get_all_inputs_append(_)
get_all_inputs_append(n) ==
    IF n > 1 THEN
        Only({ Return([ i \in 1 .. 2 * Len(sub.value) |->
                          sub.value[(i + 1) \div 2] \o << i % 2 = 0 >> ]) :
               sub \in { get_all_inputs_append(n - 1) } })
    ELSE IF n = 1 THEN Return(<< << FALSE >>, << TRUE >> >>)
    ELSE Raise("ValueError")

\* get_all_inputs: the tuples in the order the generator yields them.  For
\* n > 1 each tuple of get_all_inputs(n - 1), in turn, is yielded with False
\* and then with True in front; n < 1 raises ValueError.
RECURSIVE get_all_inputs(_)
get_all_inputs(n) ==
    IF n > 1 THEN
        Only({ Return([ i \in 1 .. 2 * Len(sub.value) |->
                          << i % 2 = 0 >> \o sub.value[(i + 1) \div 2] ]) :
               sub \in { get_all_inputs(n - 1) } })
    ELSE IF n = 1 THEN Return(<< << FALSE >>, << TRUE >> >>)
    ELSE Raise("ValueError")

RECURSIVE evaluate_conditional(_, _)
\* A variant whose conditional is computed as not (left and right).
evaluate_conditional(e, i) ==
    CASE e.type = "Symbol" ->
            IF e.v \in DOMAIN i THEN Return(i[e.v]) ELSE Raise("KeyError")
      [] e.type = "UnaryExpr" ->
            Only({ IF Returned(v) THEN Return(~ v.value) ELSE v :
                   v \in { evaluate_conditional(e.value, i) } })
      [] e.type = "BinaryExpr" ->
            Only({ IF ~ Returned(l) THEN l
                   ELSE IF ~ Returned(r) THEN r
                   ELSE CASE e.op = "&" -> Return(l.value /\ r.value)
                          [] e.op = "|" -> Return(l.value \/ r.value)
                          [] e.op = "~" -> Return(~ (l.value /\ r.value))
                          [] e.op = "=" -> Return(l.value = r.value) :
                   l \in { evaluate_conditional(e.left, i) },
                   r \in { evaluate_conditional(e.right, i) } })

RECURSIVE evaluate_lazy(_, _)
\* A variant that evaluates the right operand of '&' and '|' only when the
\* left operand does not decide the result.
evaluate_lazy(e, i) ==
    CASE e.type = "Symbol" ->
            IF e.v \in DOMAIN i THEN Return(i[e.v]) ELSE Raise("KeyError")
      [] e.type = "UnaryExpr" ->
            Only({ IF Returned(v) THEN Return(~ v.value) ELSE v :
                   v \in { evaluate_lazy(e.value, i) } })
      [] e.type = "BinaryExpr" ->
            Only({ IF ~ Returned(l) THEN l
                   ELSE IF e.op = "&" /\ ~ l.value THEN Return(FALSE)
                   ELSE IF e.op = "|" /\ l.value THEN Return(TRUE)
                   ELSE Only({ IF ~ Returned(r) THEN r
                               ELSE CASE e.op = "&" -> Return(l.value /\ r.value)
                                      [] e.op = "|" -> Return(l.value \/ r.value)
                                      [] e.op = "~" -> Return(~ (l.value /\ ~ r.value))
                                      [] e.op = "=" -> Return(l.value = r.value) :
                               r \in { evaluate_lazy(e.right, i) } }) :
                   l \in { evaluate_lazy(e.left, i) } })

\* evaluate: eval_subexpr walks the tree; interpr[e] raises KeyError for a
\* Symbol without an entry; both operands of a binary expression are
\* evaluated before its operator is applied.
RECURSIVE evaluate(_, _)
evaluate(e, i) ==
    CASE e.type = "Symbol" ->
            IF e.v \in DOMAIN i THEN Return(i[e.v]) ELSE Raise("KeyError")
      [] e.type = "UnaryExpr" ->
            IF e.op = "!"
            THEN Only({ IF Returned(v) THEN Return(~ v.value) ELSE v :
                        v \in { evaluate(e.value, i) } })
            ELSE Raise("RuntimeError")
      [] e.type = "BinaryExpr" ->
            Only({ IF ~ Returned(l) THEN l
                   ELSE IF ~ Returned(r) THEN r
                   ELSE CASE e.op = "&" -> Return(l.value /\ r.value)
                          [] e.op = "|" -> Return(l.value \/ r.value)
                          [] e.op = "~" -> Return(~ (l.value /\ ~ r.value))
                          [] e.op = "=" -> Return(l.value = r.value)
                          [] OTHER      -> Raise("RuntimeError") :
                   l \in { evaluate(e.left, i) },
                   r \in { evaluate(e.right, i) } })
      [] OTHER -> Raise("RuntimeError")

\* sorted(S) for a set of integers: ascending.
RECURSIVE sorted(_)
sorted(S) ==
    IF S = {} THEN << >>
    ELSE LET m == CHOOSE x \in S : \A y \in S : x <= y
         IN  << m >> \o sorted(S \ { m })

\* {s: v for s, v in zip(variables, subinput)}
zip(variables, subinput) ==
    [ s \in Range(variables) |->
        subinput[CHOOSE k \in DOMAIN variables : variables[k] = s] ]

\* d[key] = value on a dict kept as its items in insertion order: a new
\* key is added at the end, a present key keeps its place.
SetItem(items, key, value) ==
    IF \E k \in DOMAIN items : items[k][1] = key
    THEN [ k \in DOMAIN items |->
             IF items[k][1] = key THEN << key, value >> ELSE items[k] ]
    ELSE Append(items, << key, value >>)

\* The loop of from_expr over the inputs from position k on.
RECURSIVE FillData(_, _, _, _, _)
FillData(e, variables, inputs, k, data) ==
    IF k > Len(inputs) THEN Return([ variables |-> variables, data |-> data ])
    ELSE Only({ IF Returned(r)
                THEN FillData(e, variables, inputs, k + 1,
                              SetItem(data, inputs[k], r.value))
                ELSE r :
                r \in { evaluate(e, zip(variables, inputs[k])) } })

\* TruthTable.from_expr: the sorted variables and, for each input in the
\* order of get_all_inputs, the value of the expression.
from_expr(e) ==
    Only({ Only({ IF Returned(inputs)
                  THEN FillData(e, variables, inputs.value, 1, << >>)
                  ELSE inputs :
                  inputs \in { get_all_inputs(Len(variables)) } }) :
           variables \in { sorted(get_variables(e)) } })

-----------------------------------------------------------------------------
(* The core functions applied to expressions and interpretations drawn     *)
(* from bounded sets.                                                      *)

\* The variables of the expressions drawn: A, B and C.
Variables == { 0, 1, 2 }

\* The expression trees of exactly n nodes over Variables.
RECURSIVE ExprsOfSize(_)
ExprsOfSize(n) ==
    IF n < 1 THEN {}
    ELSE IF n = 1 THEN { Symbol(v) : v \in Variables }
    ELSE { UnaryExpr("!", e) : e \in ExprsOfSize(n - 1) }
         \cup UNION { { BinaryExpr(op, l, r) :
                            op \in BinaryOps,
                            l \in ExprsOfSize(k),
                            r \in ExprsOfSize(n - 1 - k) } :
                      k \in 1 .. (n - 2) }

Exprs == UNION { ExprsOfSize(n) : n \in 1 .. MaxNodes }

\* The interpretations: a truth value for some of the variables.
Interpretations == UNION { [ D -> BOOLEAN ] : D \in SUBSET Variables }

\* An expression and an interpretation are given to evaluate.
InitEval ==
    /\ expr \in Exprs
    /\ interpr \in Interpretations
    /\ call = [ fn |-> "none" ]
    /\ IdleParse
    /\ IdleUI

\* An expression is given to the truth-table builder.
InitTable ==
    /\ expr \in Exprs
    /\ interpr = << >>
    /\ call = [ fn |-> "none" ]
    /\ IdleParse
    /\ IdleUI

\* evaluate(expr, interpr)
Evaluate ==
    /\ call' = [ fn |-> "evaluate", ret |-> evaluate(expr, interpr) ]
    /\ UNCHANGED << expr, interpr, varsParse, varsUI >>

\* get_variables(expr)
GetVariables ==
    /\ call' = [ fn |-> "get_variables", ret |-> Return(get_variables(expr)) ]
    /\ UNCHANGED << expr, interpr, varsParse, varsUI >>

\* list(get_all_inputs(n))
GetAllInputs(n) ==
    /\ call' = [ fn |-> "get_all_inputs", n |-> n, ret |-> get_all_inputs(n) ]
    /\ UNCHANGED << expr, interpr, varsParse, varsUI >>

\* TruthTable.from_expr(expr)
FromExpr ==
    /\ call' = [ fn |-> "from_expr", ret |-> from_expr(expr) ]
    /\ UNCHANGED << expr, interpr, varsParse, varsUI >>

NextEval == Evaluate

SpecEval == InitEval /\ [][NextEval]_vars

NextTable ==
    \/ GetVariables
    \/ \E n \in 0 .. MaxInputs : GetAllInputs(n)
    \/ FromExpr

SpecTable == InitTable /\ [][NextTable]_vars

-----------------------------------------------------------------------------
(* Claims about the evaluator and the truth-table builder.                 *)

\* The variables that occur in an expression, read off its tokens.
VariablesIn(e) ==
    { n \in 0 .. 25 : Token("symbol", ascii_uppercase[n + 1]) \in Range(Flatten(e)) }

\* The value of an expression in two-valued logic.
RECURSIVE Truth(_, _)
Truth(e, a) ==
    CASE e.type = "Symbol"    -> a[e.v]
      [] e.type = "UnaryExpr" -> ~ Truth(e.value, a)
      [] e.type = "BinaryExpr" /\ e.op = "&" -> Truth(e.left, a) /\ Truth(e.right, a)
      [] e.type = "BinaryExpr" /\ e.op = "|" -> Truth(e.left, a) \/ Truth(e.right, a)
      [] e.type = "BinaryExpr" /\ e.op = "~" -> Truth(e.left, a) => Truth(e.right, a)
      [] e.type = "BinaryExpr" /\ e.op = "=" -> Truth(e.left, a) <=> Truth(e.right, a)

\* C7: under an interpretation that covers its variables, evaluate returns
\* the value of two-valued logic: '!' is NOT, '&' AND, '|' OR, 'a ~ b' is
\* false exactly when a is true and b is false, 'a = b' is true exactly
\* when a and b have the same value.
EvaluateIsLogic ==
    (call.fn = "evaluate" /\ VariablesIn(expr) \subseteq DOMAIN interpr) =>
        /\ call.ret = Return(Truth(expr, interpr))
        /\ (expr = BinaryExpr("&", ExprA, ExprB) /\ interpr[0] /\ ~ interpr[1]) =>
               call.ret = Return(FALSE)
        /\ (expr = BinaryExpr("~", ExprA, ExprB)) =>
               call.ret = Return(~ (interpr[0] /\ ~ interpr[1]))
        /\ (expr = BinaryExpr("=", ExprA, ExprB)) =>
               call.ret = Return(interpr[0] = interpr[1])

\* C7 witness: A ~ B has been evaluated to false with A true and B false.
EvaluateIsLogicWitness ==
    /\ call.fn = "evaluate"
    /\ expr = BinaryExpr("~", ExprA, ExprB)
    /\ interpr = (0 :> TRUE @@ 1 :> FALSE)
    /\ call.ret = Return(FALSE)

\* C8: evaluate raises KeyError, and returns nothing, exactly when some
\* variable of the expression has no entry in the interpretation, wherever
\* the variable occurs; otherwise it returns a boolean.
EvaluateUnbound ==
    call.fn = "evaluate" =>
        /\ Returned(call.ret) <=> (VariablesIn(expr) \subseteq DOMAIN interpr)
        /\ Returned(call.ret) => call.ret.value \in BOOLEAN
        /\ ~ Returned(call.ret) => call.ret = Raise("KeyError")

\* C8 witness: A & B has raised KeyError with A false and B without entry.
EvaluateUnboundWitness ==
    /\ call.fn = "evaluate"
    /\ expr = BinaryExpr("&", ExprA, ExprB)
    /\ interpr = (0 :> FALSE)
    /\ call.ret = Raise("KeyError")

\* The assignment a row's key gives to the variables V: the i-th smallest
\* variable has the i-th value.
RowAssignment(V, key) ==
    [ v \in V |-> key[Cardinality({ w \in V : w <= v })] ]

\* C1: from_expr returns a table whose variables are the expression's k
\* variables in ascending order and whose data has 2^k rows, keyed by every
\* tuple of k truth values once, each with the value of the expression
\* under the row's assignment.
TruthTableComplete ==
    call.fn = "from_expr" =>
        LET V == VariablesIn(expr)
            k == Cardinality(V)
        IN  /\ Returned(call.ret)
            /\ LET tt == call.ret.value
               IN  /\ Len(tt.variables) = k
                   /\ Range(tt.variables) = V
                   /\ \A i \in 1 .. (k - 1) : tt.variables[i] < tt.variables[i + 1]
                   /\ Len(tt.data) = 2 ^ k
                   /\ { tt.data[i][1] : i \in DOMAIN tt.data } = [ 1 .. k -> BOOLEAN ]
                   /\ \A i \in DOMAIN tt.data :
                          Return(tt.data[i][2])
                              = evaluate(expr, RowAssignment(V, tt.data[i][1]))

\* C1 witness: a table of three variables and eight rows has been built.
TruthTableCompleteWitness ==
    /\ call.fn = "from_expr"
    /\ Returned(call.ret)
    /\ call.ret.value.variables = << 0, 1, 2 >>
    /\ Len(call.ret.value.data) = 8

\* A tuple read as a binary number, its first position the most
\* significant bit.
RECURSIVE MsbFirst(_)
MsbFirst(t) ==
    IF t = << >> THEN 0
    ELSE 2 * MsbFirst(SubSeq(t, 1, Len(t) - 1)) + (IF t[Len(t)] THEN 1 ELSE 0)

\* A tuple read as a binary number, its first position the least
\* significant bit.
RECURSIVE LsbFirst(_)
LsbFirst(t) ==
    IF t = << >> THEN 0
    ELSE (IF t[1] THEN 1 ELSE 0) + 2 * LsbFirst(Tail(t))

\* The tuples of the call made last in the order generated: the result of
\* get_all_inputs, or the keys of the table in insertion order.
Generated ==
    IF call.fn = "get_all_inputs" /\ Returned(call.ret) THEN call.ret.value
    ELSE IF call.fn = "from_expr" /\ Returned(call.ret)
    THEN [ i \in DOMAIN call.ret.value.data |-> call.ret.value.data[i][1] ]
    ELSE << >>

\* C2 as claimed: the i-th tuple generated, read with the first variable
\* as the most significant bit, has the value i, counted from 0 (the last
\* variable varies fastest).
GeneratedLastFastest ==
    \A i \in DOMAIN Generated : MsbFirst(Generated[i]) = i - 1

\* C2 as amended: the i-th tuple generated, read with the first variable as
\* the least significant bit, has the value i, counted from 0 (the first
\* variable varies fastest).
GeneratedFirstFastest ==
    \A i \in DOMAIN Generated : LsbFirst(Generated[i]) = i - 1

\* C2 witness: of the tuples of three variables, the second generated makes
\* the first variable true.
GeneratedFirstFastestWitness ==
    /\ call.fn = "get_all_inputs"
    /\ call.n = 3
    /\ Returned(call.ret)
    /\ call.ret.value[2] = << TRUE, FALSE, FALSE >>

-----------------------------------------------------------------------------
(* ui.py: the session.  UICmd._exprs is a dict; it is kept as its items    *)
(* (name, expression) in insertion order.  What a command prints is kept   *)
(* in out, each message by an English gloss of its text.                   *)

StoreKeys(items) == { items[k][1] : k \in DOMAIN items }

\* d[key]
GetItem(items, key) == items[CHOOSE k \in DOMAIN items : items[k][1] = key][2]

\* d.pop(key)
Pop(items, key) == SelectSeq(items, LAMBDA it : it[1] # key)

\* The outcome of _get_valid_name: the Symbol, or ValueError with the
\* message printed.
Refuse(msg) == [ raised |-> "ValueError", printed |-> msg ]

\* A variant without the check that a new name is not yet defined.
_get_valid_name_unchecked(self, letter, no_exist) ==
    IF letter # << >>
    THEN Only({ IF r.err # "none"
                THEN Refuse(<< "is not a valid expression name", letter >>)
                ELSE IF r.sym \notin StoreKeys(self) /\ ~ no_exist
                THEN Refuse(<< "is not defined yet", Symbol__str__(r.sym) >>)
                ELSE Return(r.sym) :
                r \in { from_letter(letter) } })
    ELSE Refuse(<< "no expression name given" >>)

\* UICmd._get_valid_name, self being self._exprs.
_get_valid_name(self, letter, no_exist) ==
    IF letter # << >>
    THEN Only({ IF r.err # "none"
                THEN Refuse(<< "is not a valid expression name", letter >>)
                ELSE IF r.sym \notin StoreKeys(self) /\ ~ no_exist
                THEN Refuse(<< "is not defined yet", Symbol__str__(r.sym) >>)
                ELSE IF no_exist /\ r.sym \in StoreKeys(self)
                THEN Refuse(<< "is already defined", Symbol__str__(r.sym) >>)
                ELSE Return(r.sym) :
                r \in { from_letter(letter) } })
    ELSE Refuse(<< "no expression name given" >>)

\* values_key: the values as a binary number, the first the most
\* significant.
RECURSIVE values_key(_)
values_key(values) ==
    IF values = << >> THEN 0
    ELSE 2 * values_key(SubSeq(values, 1, Len(values) - 1))
         + (IF values[Len(values)] THEN 1 ELSE 0)

\* sorted(tt.data, key=values_key), each key with its result.
RECURSIVE SortedRows(_)
SortedRows(data) ==
    IF data = << >> THEN << >>
    ELSE LET m == CHOOSE k \in DOMAIN data :
                      \A j \in DOMAIN data :
                          values_key(data[k][1]) <= values_key(data[j][1])
         IN  << data[m] >>
             \o SortedRows(SubSeq(data, 1, m - 1) \o SubSeq(data, m + 1, Len(data)))

Digit(b) == IF b THEN "1" ELSE "0"

\* _format_tt: the table drawn, kept as its head (the variables and the
\* expression) and its rows in the order drawn, without the frame.
_format_tt(tt, expr_str) ==
    [ head |-> << [ i \in DOMAIN tt.variables |-> Symbol__str__(tt.variables[i]) ],
                  expr_str >>,
      rows |-> [ i \in DOMAIN tt.data |->
                   Only({ << [ j \in DOMAIN row[1] |-> Digit(row[1][j]) ],
                             Digit(row[2]) >> :
                          row \in { SortedRows(tt.data)[i] } }) ] ]

\* The names and the formulas entered in the session.
Names == { << "A" >>, << "b" >>, << "3" >>, << "A", "B" >>, << >> }

Formulas ==
    { << "B", " ", "~", " ", "(", "A", " ", "~", " ", "B", ")" >>,
      << "!", "a" >>,
      << "A", " ", "&", " ", "3" >>,
      << "A", " ", "&" >> }

\* The answers to the prompts of eval: bool(int(answer)).
Answers == { "0", "1" }

InitUI ==
    /\ _exprs = << >>
    /\ cmd = [ name |-> "none" ]
    /\ out = << >>
    /\ IdleParse
    /\ IdleCore

Running == cmd.name # "exit"

\* do_exit, do_EOF: the loop ends.
do_exit ==
    /\ Running
    /\ cmd' = [ name |-> "exit" ]
    /\ out' = << >>
    /\ UNCHANGED << _exprs, varsParse, varsCore >>

\* do_new: the formula is asked for once the name is accepted.
do_new(arg, formula) ==
    /\ Running
    /\ \E named \in { _get_valid_name(_exprs, arg, TRUE) } :
         IF ~ Returned(named)
         THEN /\ cmd' = [ name |-> "new", arg |-> arg, named |-> named ]
              /\ out' = named.printed
              /\ UNCHANGED _exprs
         ELSE \E p \in { parse_tokenize(formula) } :
                /\ cmd' = [ name |-> "new", arg |-> arg, named |-> named,
                            formula |-> formula ]
                /\ IF p.err = "LexerError"
                   THEN out' = << "lexical error" >> /\ UNCHANGED _exprs
                   ELSE IF p.err = "NoParseError"
                   THEN out' = << "syntax error" >> /\ UNCHANGED _exprs
                   ELSE /\ out' = << >>
                        /\ _exprs' = SetItem(_exprs, named.value, p.expr)
    /\ UNCHANGED << varsParse, varsCore >>

\* do_del
do_del(arg) ==
    /\ Running
    /\ \E named \in { _get_valid_name(_exprs, arg, FALSE) } :
         /\ cmd' = [ name |-> "del", arg |-> arg, named |-> named ]
         /\ IF ~ Returned(named)
            THEN out' = named.printed /\ UNCHANGED _exprs
            ELSE out' = << >> /\ _exprs' = Pop(_exprs, named.value)
    /\ UNCHANGED << varsParse, varsCore >>

\* do_list, and do_listu with unicode.
do_list(arg, unicode) ==
    /\ Running
    /\ IF _exprs = << >>
       THEN /\ cmd' = [ name |-> "list", arg |-> arg ]
            /\ out' = << "no expression has been added" >>
       ELSE IF arg # << >>
       THEN \E named \in { _get_valid_name(_exprs, arg, FALSE) } :
              /\ cmd' = [ name |-> "list", arg |-> arg, named |-> named ]
              /\ out' = IF ~ Returned(named) THEN named.printed
                        ELSE << << Symbol__str__(named.value),
                                   _format_expr(GetItem(_exprs, named.value), unicode) >> >>
       ELSE /\ cmd' = [ name |-> "list", arg |-> arg ]
            /\ out' = [ k \in DOMAIN _exprs |->
                          << Symbol__str__(_exprs[k][1]),
                             _format_expr(_exprs[k][2], unicode) >> ]
    /\ UNCHANGED << _exprs, varsParse, varsCore >>

\* do_tt, and do_ttu with unicode.
do_tt(arg, unicode) ==
    /\ Running
    /\ \E named \in { _get_valid_name(_exprs, arg, FALSE) } :
         /\ cmd' = [ name |-> "tt", arg |-> arg, named |-> named ]
         /\ IF ~ Returned(named)
            THEN out' = named.printed
            ELSE \E tt \in { from_expr(GetItem(_exprs, named.value)) } :
                   out' = IF ~ Returned(tt) THEN << "Traceback", tt.raised >>
                          ELSE IF tt.value.variables # << >>
                          THEN << _format_tt(tt.value,
                                             _format_expr(GetItem(_exprs, named.value),
                                                          unicode)) >>
                          ELSE << "the expression has no variable" >>
    /\ UNCHANGED << _exprs, varsParse, varsCore >>

\* do_eval: a value is asked for each variable, in ascending order.
do_eval(arg) ==
    /\ Running
    /\ \E named \in { _get_valid_name(_exprs, arg, FALSE) } :
         IF ~ Returned(named)
         THEN /\ cmd' = [ name |-> "eval", arg |-> arg, named |-> named ]
              /\ out' = named.printed
         ELSE \E variables \in { sorted(get_variables(GetItem(_exprs, named.value))) } :
                IF variables = << >>
                THEN /\ cmd' = [ name |-> "eval", arg |-> arg, named |-> named ]
                     /\ out' = << "the expression has no variable" >>
                ELSE \E answers \in [ DOMAIN variables -> Answers ] :
                       /\ cmd' = [ name |-> "eval", arg |-> arg, named |-> named,
                                   answers |-> answers ]
                       /\ \E v \in { evaluate(GetItem(_exprs, named.value),
                                              [ s \in Range(variables) |->
                                                  answers[CHOOSE k \in DOMAIN variables :
                                                              variables[k] = s] # "0" ]) } :
                            out' = IF Returned(v)
                                   THEN << "give each variable a value",
                                           "the value is", Digit(v.value) >>
                                   ELSE << "give each variable a value",
                                           "Traceback", v.raised >>
    /\ UNCHANGED << _exprs, varsParse, varsCore >>

Next ==
    \/ \E arg \in Names, formula \in Formulas : do_new(arg, formula)
    \/ \E arg \in Names : do_del(arg)
    \/ \E arg \in Names, unicode \in BOOLEAN : do_list(arg, unicode)
    \/ \E arg \in Names, unicode \in BOOLEAN : do_tt(arg, unicode)
    \/ \E arg \in Names : do_eval(arg)
    \/ do_exit

Spec == InitUI /\ [][Next]_vars

-----------------------------------------------------------------------------
(* Claims about the session.                                               *)

SingleLetter(arg) ==
    Len(arg) = 1 /\ arg[1] \in Range(ascii_uppercase) \cup Range(ascii_lowercase)

\* C5 as claimed: a name that is not a single letter is refused, by
\* from_letter with ValueError and so by _get_valid_name, and every Symbol
\* that names a stored expression lies in 0 .. 25.
NamesAreLetters ==
    /\ \A n \in StoreKeys(_exprs) : n \in 0 .. 25
    /\ ("named" \in DOMAIN cmd /\ cmd.arg # << >> /\ ~ SingleLetter(cmd.arg)) =>
           /\ from_letter(cmd.arg).err = "ValueError"
           /\ cmd.named = Refuse(<< "is not a valid expression name", cmd.arg >>)

\* A tree of Symbol, UnaryExpr and BinaryExpr nodes, complete to its leaves.
RECURSIVE Complete(_)
Complete(e) ==
    CASE e.type = "Symbol"     -> e.v \in Int
      [] e.type = "UnaryExpr"  -> e.op = "!" /\ Complete(e.value)
      [] e.type = "BinaryExpr" ->
             e.op \in { "&", "|", "~", "=" } /\ Complete(e.left) /\ Complete(e.right)
      [] OTHER -> FALSE

\* The Symbol a command's argument names.
Named(c) == from_letter(c.arg).sym

\* The command of a step gives a name.
Gives(c) == c.name \in { "new", "del" } /\ c.arg # << >>

=============================================================================
